---------------------------- MODULE Spec2Model ----------------------------
(***************************************************************************)
(* Model of the ray tracer kernel: Tuple, Matrix<T, N>, Ray, Sphere,       *)
(* Intersections and Canvas.                                               *)
(*                                                                         *)
(* Numbers.  The code is generic over T: Float.  A value of T is modelled  *)
(* as a pair <<n, d>>: a reduced fraction n/d when d > 0, and the three    *)
(* special values of the float type when d = 0 (<<0,0>> is NaN, <<1,0>>    *)
(* is +infinity, <<-1,0>> is -infinity).  Arithmetic on finite values is   *)
(* exact; rounding, overflow to infinity and the sign of zero are not      *)
(* modelled.  The square root is exact on perfect squares and rounded      *)
(* down otherwise.  Angles are whole numbers of quarter turns, with their  *)
(* exact sine and cosine.                                                  *)
(***************************************************************************)
EXTENDS Integers, Sequences, FiniteSets, TLC

VARIABLES
    data,        \* Intersections::data, the array handed to Intersections::new
    hit_result,  \* the last Intersections::hit call: NotCalled or [ret]
    sphere,      \* the Sphere: [id, transformation]
    xs,          \* the last Sphere::intersect call: NotCalled or
                 \* [self, ray, ret, discriminant]
    matrix,      \* the Matrix<T, N>: its data, an array of N rows of N cells
    mres,        \* the last Matrix call: NotCalled or [op, before, args, ret]
    mcalls,      \* the number of Matrix calls made so far
    canvas,      \* the Canvas: [width, height, pixels]
    cres,        \* the last Canvas call: NotCalled or [op, before, args, ret]
    created,     \* the Canvas as its constructor returned it
    log,         \* the write_pixel calls made on the shared Canvas, in order:
                 \* records [worker, x, y, color, ret]
    tres,        \* the last Tuple or Ray call: NotCalled or [op, args, ret]
    last_set,    \* the argument of the last Sphere::set_translation call: None or Some
    normal,      \* the last Sphere::normal_at call: NotCalled or [op, point, ret]
    projectile,  \* the Projectile: [position, velocity]
    environment, \* the Environment handed to tick: [gravity, wind]
    launched,    \* the Projectile as Projectile::new returned it
    ticks        \* the number of tick calls made so far

vars ==
    <<data, hit_result, sphere, xs, matrix, mres, mcalls, canvas, cres, created, log,
      tres, last_set, normal, projectile, environment, launched, ticks>>

hitVars == <<data, hit_result>>
sphereVars == <<sphere, xs, last_set, normal>>
matrixVars == <<matrix, mres, mcalls>>
canvasVars == <<canvas, cres>>
writerVars == <<created, log>>
projVars == <<projectile, environment, launched, ticks>>

NotCalled == [op |-> "none"]

-----------------------------------------------------------------------------
(* The float type T *)

Abs(i) == IF i < 0 THEN -i ELSE i

Sgn(i) == IF i < 0 THEN -1 ELSE IF i > 0 THEN 1 ELSE 0

RECURSIVE GCD(_, _)
GCD(a, b) == IF b = 0 THEN a ELSE GCD(b, a % b)

\* the reduced fraction n/d, d > 0
Norm(n, d) == LET g == GCD(Abs(n), d) IN <<n \div g, d \div g>>

NaN == <<0, 0>>
PosInf == <<1, 0>>
NegInf == <<-1, 0>>

Int2F(i) == <<i, 1>>
Frac(n, d) == Norm(n, d)
Zero == <<0, 1>>
One == <<1, 1>>

IsNaN(x) == x[2] = 0 /\ x[1] = 0
IsInf(x) == x[2] = 0 /\ x[1] # 0
IsFinite(x) == x[2] > 0

Neg(x) == <<-x[1], x[2]>>

Add(x, y) ==
    IF x[2] = 1 /\ y[2] = 1 THEN <<x[1] + y[1], 1>>
    ELSE IF IsNaN(x) \/ IsNaN(y) THEN NaN
    ELSE IF IsInf(x) THEN (IF IsInf(y) /\ y[1] # x[1] THEN NaN ELSE x)
    ELSE IF IsInf(y) THEN y
    ELSE LET g == GCD(x[2], y[2])
             l == (x[2] \div g) * y[2]
         IN Norm(x[1] * (l \div x[2]) + y[1] * (l \div y[2]), l)

Sub(x, y) == Add(x, Neg(y))

Mul(x, y) ==
    IF x[2] = 1 /\ y[2] = 1 THEN <<x[1] * y[1], 1>>
    ELSE IF IsNaN(x) \/ IsNaN(y) THEN NaN
    ELSE IF IsInf(x) \/ IsInf(y)
         THEN (IF x[1] = 0 \/ y[1] = 0 THEN NaN ELSE <<Sgn(x[1]) * Sgn(y[1]), 0>>)
    ELSE LET g1 == GCD(Abs(x[1]), y[2])
             g2 == GCD(Abs(y[1]), x[2])
         IN <<(x[1] \div g1) * (y[1] \div g2), (x[2] \div g2) * (y[2] \div g1)>>

Div(x, y) ==
    IF IsNaN(x) \/ IsNaN(y) THEN NaN
    ELSE IF IsInf(y) THEN (IF IsInf(x) THEN NaN ELSE Zero)
    ELSE IF IsInf(x) THEN <<Sgn(x[1]) * (IF y[1] < 0 THEN -1 ELSE 1), 0>>
    ELSE IF y[1] = 0 THEN <<Sgn(x[1]), 0>>
    ELSE Mul(x, <<Sgn(y[1]) * y[2], Abs(y[1])>>)

\* x < y; every comparison with NaN is false
Lt(x, y) ==
    IF IsNaN(x) \/ IsNaN(y) THEN FALSE
    ELSE IF IsInf(x) /\ IsInf(y) THEN x[1] < y[1]
    ELSE x[1] * (y[2] \div GCD(x[2], y[2])) < y[1] * (x[2] \div GCD(x[2], y[2]))

Gt(x, y) == Lt(y, x)

\* x == y on floats (NaN is not equal to itself)
Eq(x, y) == ~IsNaN(x) /\ ~IsNaN(y) /\ x = y

Le(x, y) == Lt(x, y) \/ Eq(x, y)

\* x != y on floats
Ne(x, y) == ~Eq(x, y)

FAbs(x) == <<Abs(x[1]), x[2]>>

\* largest r in lo..hi with r * r <= n (lo * lo <= n < (hi + 1) * (hi + 1))
RECURSIVE ISqrtIn(_, _, _)
ISqrtIn(n, lo, hi) ==
    IF lo >= hi THEN lo
    ELSE LET mid == (lo + hi + 1) \div 2
         IN IF mid * mid <= n THEN ISqrtIn(n, mid, hi) ELSE ISqrtIn(n, lo, mid - 1)

\* the integer square root (46340 is the largest r with r * r < 2^31)
ISqrt(n) == ISqrtIn(n, 0, IF n < 46340 THEN n ELSE 46340)

IsSquare(x) == IsFinite(x) /\ x[1] >= 0
               /\ ISqrt(x[1]) * ISqrt(x[1]) = x[1] /\ ISqrt(x[2]) * ISqrt(x[2]) = x[2]

\* T::sqrt: exact on squares of fractions, rounded down to a multiple of 1/d
\* otherwise; NaN on negative values
Sqrt(x) ==
    IF IsNaN(x) THEN NaN
    ELSE IF x[1] < 0 THEN NaN
    ELSE IF IsInf(x) THEN PosInf
    ELSE IF IsSquare(x) THEN <<ISqrt(x[1]), ISqrt(x[2])>>
    ELSE Norm(ISqrt(x[1] * x[2]), x[2])

-----------------------------------------------------------------------------
(* float_service.rs *)

EPSILON == Frac(1, 100000)

compare_floats(x, y) == Lt(FAbs(Sub(x, y)), EPSILON)


-----------------------------------------------------------------------------
(* Option and Result values *)

None == [is_some |-> FALSE]
Some(v) == [is_some |-> TRUE, val |-> v]
Ok(v) == [is_ok |-> TRUE, val |-> v]
Err(e) == [is_ok |-> FALSE, err |-> e]
Unit == <<>>

\* the length of an array (a function on 0..len-1)
ArrLen(a) == Cardinality(DOMAIN a)

-----------------------------------------------------------------------------
(* tuple.rs *)

Tuple_new(x, y, z, w) == [x |-> x, y |-> y, z |-> z, w |-> w]
new_point(x, y, z) == [x |-> x, y |-> y, z |-> z, w |-> One]
new_vector(x, y, z) == [x |-> x, y |-> y, z |-> z, w |-> Zero]

\* impl Index<usize> for Tuple (index 0..3; any other index panics)
TupleIndex(t, i) ==
    CASE i = 0 -> t.x
      [] i = 1 -> t.y
      [] i = 2 -> t.z
      [] i = 3 -> t.w

\* impl IndexMut<usize> for Tuple: tuple[i] = v
TupleSet(t, i, v) ==
    CASE i = 0 -> [t EXCEPT !.x = v]
      [] i = 1 -> [t EXCEPT !.y = v]
      [] i = 2 -> [t EXCEPT !.z = v]
      [] i = 3 -> [t EXCEPT !.w = v]

\* T::sqrt(x^2 + y^2 + z^2 + w^2)
magnitude(t) ==
    Sqrt(Add(Add(Add(Mul(t.x, t.x), Mul(t.y, t.y)), Mul(t.z, t.z)), Mul(t.w, t.w)))

\* each component divided by the magnitude
NormalizeBy(t, m) == [x |-> Div(t.x, m), y |-> Div(t.y, m), z |-> Div(t.z, m), w |-> Div(t.w, m)]

normalize(t) == NormalizeBy(t, magnitude(t))

dot_product(t1, t2) ==
    Add(Add(Add(Mul(t1.x, t2.x), Mul(t1.y, t2.y)), Mul(t1.z, t2.z)), Mul(t1.w, t2.w))

\* main.rs, Tuple::dot_product of the f32 Tuple: the last term is t1.w * t1.w
main_dot_product(t1, t2) ==
    Add(Add(Add(Mul(t1.x, t2.x), Mul(t1.y, t2.y)), Mul(t1.z, t2.z)), Mul(t1.w, t1.w))

TupleAdd(a, b) ==
    [x |-> Add(a.x, b.x), y |-> Add(a.y, b.y), z |-> Add(a.z, b.z), w |-> Add(a.w, b.w)]

\* sub keeping the w of the left operand
TupleSub_KeepsW(a, b) ==
    [x |-> Sub(a.x, b.x), y |-> Sub(a.y, b.y), z |-> Sub(a.z, b.z), w |-> a.w]

TupleSub(a, b) ==
    [x |-> Sub(a.x, b.x), y |-> Sub(a.y, b.y), z |-> Sub(a.z, b.z), w |-> Sub(a.w, b.w)]

TupleMulScalar(a, k) ==
    [x |-> Mul(a.x, k), y |-> Mul(a.y, k), z |-> Mul(a.z, k), w |-> Mul(a.w, k)]

\* eq comparing w as well
TupleEq_ComparesW(a, b) ==
    /\ compare_floats(a.x, b.x) /\ compare_floats(a.y, b.y)
    /\ compare_floats(a.z, b.z) /\ compare_floats(a.w, b.w)

\* impl PartialEq for Tuple: compare_floats on x, y and z
TupleEq(a, b) ==
    compare_floats(a.x, b.x) /\ compare_floats(a.y, b.y) /\ compare_floats(a.z, b.z)

-----------------------------------------------------------------------------
(* matrix.rs: a Matrix<T, N> is its data, an array of N rows of N cells *)

N2 == 2
N3 == 3
N4 == 4

Size(m) == ArrLen(m)

Matrix_new(n) == [r \in 0..(n - 1) |-> [c \in 0..(n - 1) |-> Zero]]

\* Matrix::from(vec![...]) with the rows given as sequences of integers
FromRows(rows) ==
    [r \in 0..(Len(rows) - 1) |-> [c \in 0..(Len(rows) - 1) |-> Int2F(rows[r + 1][c + 1])]]

\* self[i1][i2] = number
SetCell(m, i1, i2, number) == [m EXCEPT ![i1] = [@ EXCEPT ![i2] = number]]

Matrix_get(m, i1, i2) ==
    IF i1 \notin DOMAIN m THEN None
    ELSE IF i2 \notin DOMAIN m[i1] THEN None
    ELSE Some(m[i1][i2])

\* insert writing the cell self[i2][i1]
Matrix_insert_Transposed(m, i1, i2, number) ==
    IF i1 \notin DOMAIN m THEN <<m, Err("index out of bounds")>>
    ELSE IF i2 \notin DOMAIN m[i1] THEN <<m, Err("index out of bounds")>>
    ELSE <<[m EXCEPT ![i2] = [@ EXCEPT ![i1] = number]], Ok(Unit)>>

\* returns <<the matrix after the call, the Result>>
Matrix_insert(m, i1, i2, number) ==
    IF i1 \notin DOMAIN m THEN <<m, Err("index out of bounds")>>
    ELSE IF i2 \notin DOMAIN m[i1] THEN <<m, Err("index out of bounds")>>
    ELSE <<SetCell(m, i1, i2, number), Ok(Unit)>>

identity_matrix ==
    [r \in 0..3 |-> [c \in 0..3 |-> IF r = c THEN One ELSE Zero]]

\* Matrix<T, 3>::sub_matrix: the rows and columns other than row and col, in order
sub_matrix3(m, row, col) ==
    [r \in 0..1 |->
        [c \in 0..1 |-> m[IF r < row THEN r ELSE r + 1][IF c < col THEN c ELSE c + 1]]]

\* Matrix<T, 4>::sub_matrix
sub_matrix(m, row, col) ==
    [r \in 0..2 |->
        [c \in 0..2 |-> m[IF r < row THEN r ELSE r + 1][IF c < col THEN c ELSE c + 1]]]

determinant2(m) == Sub(Mul(m[0][0], m[1][1]), Mul(m[0][1], m[1][0]))

minor3(m, row, col) == determinant2(sub_matrix3(m, row, col))

cofactor3(m, row, col) ==
    IF (row + col) % 2 = 0 THEN minor3(m, row, col) ELSE Neg(minor3(m, row, col))

determinant3(m) ==
    Add(Add(Add(Zero, Mul(m[0][0], cofactor3(m, 0, 0))),
            Mul(m[0][1], cofactor3(m, 0, 1))),
        Mul(m[0][2], cofactor3(m, 0, 2)))

minor(m, row, col) == determinant3(sub_matrix(m, row, col))

\* cofactor without the negation for odd row + col
cofactor_Unsigned(m, row, col) == minor(m, row, col)

cofactor(m, row, col) ==
    IF (row + col) % 2 = 0 THEN minor(m, row, col) ELSE Neg(minor(m, row, col))

determinant(m) ==
    Add(Add(Add(Add(Zero, Mul(m[0][0], cofactor(m, 0, 0))),
                Mul(m[0][1], cofactor(m, 0, 1))),
            Mul(m[0][2], cofactor(m, 0, 2))),
        Mul(m[0][3], cofactor(m, 0, 3)))

\* invertible without the test of the determinant
invertible_Always(m) == TRUE

invertible(m) == Ne(determinant(m), Zero)

\* inverse placing cofactor(row, col) at (row, col): the transposition left out
inverse_NotTransposed(m) ==
    IF invertible(m)
    THEN LET det == determinant(m)
         IN Ok([r \in 0..3 |-> [c \in 0..3 |-> Div(cofactor(m, r, c), det)]])
    ELSE Err("index out of bounds")

\* new_matrix[col][row] = cofactor(row, col) / self.determinant()
inverse(m) ==
    IF invertible(m)
    THEN LET det == determinant(m)
         IN Ok([r \in 0..3 |-> [c \in 0..3 |-> Div(cofactor(m, c, r), det)]])
    ELSE Err("index out of bounds")

\* translation writing x, y, z into the last row in place of the last column
translation_LastRow(x, y, z) ==
    SetCell(SetCell(SetCell(identity_matrix, 3, 0, x), 3, 1, y), 3, 2, z)

translation(x, y, z) ==
    SetCell(SetCell(SetCell(identity_matrix, 0, 3, x), 1, 3, y), 2, 3, z)

\* radians.cos() and radians.sin() for an angle of q quarter turns
Cos(q) == CASE q % 4 = 0 -> One [] q % 4 = 1 -> Zero [] q % 4 = 2 -> Neg(One) [] q % 4 = 3 -> Zero
Sin(q) == CASE q % 4 = 0 -> Zero [] q % 4 = 1 -> One [] q % 4 = 2 -> Zero [] q % 4 = 3 -> Neg(One)

rotate_x(q) ==
    SetCell(SetCell(SetCell(SetCell(identity_matrix,
        1, 1, Cos(q)), 1, 2, Neg(Sin(q))), 2, 1, Sin(q)), 2, 2, Cos(q))

scaling(x, y, z) ==
    SetCell(SetCell(SetCell(identity_matrix, 0, 0, x), 1, 1, y), 2, 2, z)

sheering(xy, xz, yx, yz, zx, zy) ==
    SetCell(SetCell(SetCell(SetCell(SetCell(SetCell(identity_matrix,
        0, 1, xy), 0, 2, xz), 1, 0, yx), 1, 2, yz), 2, 0, zx), 2, 1, zy)

\* impl PartialEq for Matrix: cell-wise compare_floats
MatrixEq(a, b) ==
    \A row \in DOMAIN a : \A col \in DOMAIN a : compare_floats(a[row][col], b[row][col])

\* the cell of rhs * self in place of self * rhs
RECURSIVE MulCell_RightFirst(_, _, _, _, _, _)
MulCell_RightFirst(a, b, row, col, index, acc) ==
    IF index = Size(a) THEN acc
    ELSE MulCell_RightFirst(a, b, row, col, index + 1,
                            Add(acc, Mul(b[row][index], a[index][col])))

\* new_matrix[row][col] += self[row][index] * rhs[index][col], index = 0..N-1
RECURSIVE MulCell(_, _, _, _, _, _)
MulCell(a, b, row, col, index, acc) ==
    IF index = Size(a) THEN acc
    ELSE MulCell(a, b, row, col, index + 1, Add(acc, Mul(a[row][index], b[index][col])))

\* impl Mul for Matrix
MatrixMul(a, b) ==
    [row \in DOMAIN a |-> [col \in DOMAIN a |-> MulCell(a, b, row, col, 0, Zero)]]

\* right_number += self[i][y] * rhs[y], y = 0..3
RECURSIVE MulTupleRow(_, _, _, _, _)
MulTupleRow(m, rhs, i, y, acc) ==
    IF y = 4 THEN acc
    ELSE MulTupleRow(m, rhs, i, y + 1, Add(acc, Mul(m[i][y], TupleIndex(rhs, y))))

\* the step for row i reading the components of tuple, the copy being overwritten
MulTupleStep_InPlace(m, rhs, tuple, i) == TupleSet(tuple, i, MulTupleRow(m, tuple, i, 0, Zero))

\* tuple[i] = right_number, the dot of row i with rhs
MulTupleStep(m, rhs, tuple, i) == TupleSet(tuple, i, MulTupleRow(m, rhs, i, 0, Zero))

\* impl Mul<Tuple<T>> for Matrix: let mut tuple = rhs; the steps i = 0..3
MatrixMulTuple(m, rhs) ==
    MulTupleStep(m, rhs,
        MulTupleStep(m, rhs, MulTupleStep(m, rhs, MulTupleStep(m, rhs, rhs, 0), 1), 2), 3)

-----------------------------------------------------------------------------
(* ray.rs *)

Ray_new(origin, direction) == [origin |-> origin, direction |-> direction]

position(r, distance) == TupleAdd(r.origin, TupleMulScalar(r.direction, distance))

Ray_transform(r, m) ==
    [origin |-> MatrixMulTuple(m, r.origin), direction |-> MatrixMulTuple(m, r.direction)]

-----------------------------------------------------------------------------
(* intersection.rs *)

Intersection_new(value, object) == [value |-> value, object |-> object]

\* hit with the filter t >= 0 in place of t > 0
RECURSIVE HitScan_ZeroQualifies(_, _, _)
HitScan_ZeroQualifies(d, i, closest_intersection) ==
    IF i >= ArrLen(d) THEN closest_intersection
    ELSE LET inter == d[i]
         IN HitScan_ZeroQualifies(d, i + 1,
                IF Le(Zero, inter.value)
                THEN IF ~closest_intersection.is_some THEN Some(inter)
                     ELSE IF Gt(closest_intersection.val.value, inter.value)
                          THEN Some(inter)
                          ELSE closest_intersection
                ELSE closest_intersection)

\* hit with the replacement test closest >= inter in place of closest > inter
RECURSIVE HitScan_LastOfTies(_, _, _)
HitScan_LastOfTies(d, i, closest_intersection) ==
    IF i >= ArrLen(d) THEN closest_intersection
    ELSE LET inter == d[i]
         IN HitScan_LastOfTies(d, i + 1,
                IF Gt(inter.value, Zero)
                THEN IF ~closest_intersection.is_some THEN Some(inter)
                     ELSE IF Le(inter.value, closest_intersection.val.value)
                          THEN Some(inter)
                          ELSE closest_intersection
                ELSE closest_intersection)

\* the for_each closure of hit, applied to data[i], data[i + 1], ...
RECURSIVE HitScan(_, _, _)
HitScan(d, i, closest_intersection) ==
    IF i >= ArrLen(d) THEN closest_intersection
    ELSE LET inter == d[i]
         IN HitScan(d, i + 1,
                IF Gt(inter.value, Zero)
                THEN IF ~closest_intersection.is_some THEN Some(inter)
                     ELSE IF Gt(closest_intersection.val.value, inter.value)
                          THEN Some(inter)
                          ELSE closest_intersection
                ELSE closest_intersection)

hit(d) == HitScan(d, 0, None)

-----------------------------------------------------------------------------
(* sphere.rs *)

Sphere_new(id) == [id |-> id, transformation |-> identity_matrix]

\* set_translation leaving the transform as it was
set_translation_Ignored(s, transformation) == s

set_translation(s, transformation) == [s EXCEPT !.transformation = transformation]

\* normal_at with the point taken through the transform of the sphere first
normal_at_Transformed(s, point) ==
    normalize(TupleSub(MatrixMulTuple(s.transformation, point), new_point(Zero, Zero, Zero)))

\* (point - point(0, 0, 0)).normalize(); self is not used
normal_at(s, point) == normalize(TupleSub(point, new_point(Zero, Zero, Zero)))

NotEvaluated == "not evaluated"

\* intersect on the world-space ray, the inverse not applied
ToObjectSpace_Untransformed(r, inv) == r

\* ray.transform(inverse): the ray in the sphere's object space
ToObjectSpace(r, inv) == Ray_transform(r, inv)

sphere_to_ray(lr) == TupleSub(lr.origin, new_point(Zero, Zero, Zero))
QuadA(lr) == dot_product(lr.direction, lr.direction)
QuadB(lr) == Mul(dot_product(lr.direction, sphere_to_ray(lr)), Int2F(2))
QuadC(lr) == Sub(dot_product(sphere_to_ray(lr), sphere_to_ray(lr)), Int2F(1))
Discriminant(a, b, c) == Sub(Mul(b, b), Mul(Mul(Int2F(4), a), c))

\* the test discriminant <= 0 in place of discriminant < 0
Misses_OrEqual(discriminant) == Le(discriminant, Zero)

\* match discriminant < T::zero()
Misses(discriminant) == Lt(discriminant, Zero)

\* intersection_1 with b in place of -b
Root1_SignSlip(a, b, discriminant) ==
    Div(Sub(b, Sqrt(discriminant)), Mul(Int2F(2), a))

\* the t of intersection_1 and of intersection_2
Root1(a, b, discriminant) == Div(Sub(Neg(b), Sqrt(discriminant)), Mul(Int2F(2), a))
Root2(a, b, discriminant) == Div(Add(Neg(b), Sqrt(discriminant)), Mul(Int2F(2), a))

\* the records holding Sphere::new(id) in place of a clone of the sphere
IntersectRoots_NewSphere(s, a, b, disc) ==
    IF Misses(disc)
    THEN [ret |-> Err("Discriminant is lower then 0"), discriminant |-> disc]
    ELSE [ret |-> Ok([i \in 0..1 |->
                     IF i = 0
                     THEN Intersection_new(Root1(a, b, disc), Sphere_new(s.id))
                     ELSE Intersection_new(Root2(a, b, disc), Sphere_new(s.id))]),
          discriminant |-> disc]

\* the match on the discriminant: the miss, or the two records in the order
\* intersection_1, intersection_2, each with a clone of the sphere
IntersectRoots(s, a, b, disc) ==
    IF Misses(disc)
    THEN [ret |-> Err("Discriminant is lower then 0"), discriminant |-> disc]
    ELSE [ret |-> Ok([i \in 0..1 |->
                     IF i = 0
                     THEN Intersection_new(Root1(a, b, disc), s)
                     ELSE Intersection_new(Root2(a, b, disc), s)]),
          discriminant |-> disc]

\* a, b, c and the discriminant of the object-space ray lr
IntersectObjectRay(s, lr) ==
    IntersectRoots(s, QuadA(lr), QuadB(lr),
                   Discriminant(QuadA(lr), QuadB(lr), QuadC(lr)))

\* Sphere::intersect: [ret |-> the Result, discriminant |-> the discriminant, or
\* NotEvaluated when the call returned before computing it]
intersect(s, r) ==
    LET inv == inverse(s.transformation)
    IN IF ~inv.is_ok
       THEN [ret |-> Err("inverse failed"), discriminant |-> NotEvaluated]
       ELSE IntersectObjectRay(s, ToObjectSpace(r, inv.val))

-----------------------------------------------------------------------------
(* canvas.rs, color.rs *)

Color_new(red, green, blue) == [red |-> red, green |-> green, blue |-> blue]

Canvas_new(width, height) ==
    [width |-> width, height |-> height,
     pixels |-> [h \in 0..(height - 1) |->
                    [w \in 0..(width - 1) |-> Color_new(Zero, Zero, Zero)]]]

new_with_color(width, height, color) ==
    [width |-> width, height |-> height,
     pixels |-> [h \in 0..(height - 1) |-> [w \in 0..(width - 1) |-> color]]]

\* write_pixel testing width against the rows and height against the columns
write_pixel_Swapped(cv, width, height, color) ==
    IF width \notin DOMAIN cv.pixels THEN <<cv, Err("invalid index")>>
    ELSE IF ArrLen(cv.pixels[width]) > height
         THEN <<[cv EXCEPT !.pixels[width][height] = color], Ok(Unit)>>
         ELSE <<cv, Err("invalid index")>>

\* write_pixel returning Ok without storing the color
write_pixel_NoStore(cv, width, height, color) ==
    IF height \notin DOMAIN cv.pixels THEN <<cv, Err("invalid index")>>
    ELSE IF ArrLen(cv.pixels[height]) > width
         THEN <<cv, Ok(Unit)>>
         ELSE <<cv, Err("invalid index")>>

\* write_pixel storing the color in every cell of the row up to the given one
write_pixel_FillsRow(cv, width, height, color) ==
    IF height \notin DOMAIN cv.pixels THEN <<cv, Err("invalid index")>>
    ELSE IF ArrLen(cv.pixels[height]) > width
         THEN <<[cv EXCEPT !.pixels[height] =
                     [w \in DOMAIN cv.pixels[height] |->
                         IF w <= width THEN color ELSE cv.pixels[height][w]]],
                Ok(Unit)>>
         ELSE <<cv, Err("invalid index")>>

\* write_pixel pushing the color onto the row when width is the length of the row
write_pixel_Grows(cv, width, height, color) ==
    IF height \notin DOMAIN cv.pixels THEN <<cv, Err("invalid index")>>
    ELSE IF ArrLen(cv.pixels[height]) > width
         THEN <<[cv EXCEPT !.pixels[height][width] = color], Ok(Unit)>>
         ELSE <<[cv EXCEPT !.pixels[height] =
                     [w \in 0..ArrLen(cv.pixels[height]) |->
                         IF w \in DOMAIN cv.pixels[height] THEN cv.pixels[height][w]
                         ELSE color]],
                Err("invalid index")>>

\* returns <<the canvas after the call, the Result>>
write_pixel(cv, width, height, color) ==
    IF height \notin DOMAIN cv.pixels THEN <<cv, Err("invalid index")>>
    ELSE IF ArrLen(cv.pixels[height]) > width
         THEN <<[cv EXCEPT !.pixels[height][width] = color], Ok(Unit)>>
         ELSE <<cv, Err("invalid index")>>

\* the outcome of a call that returns no Result: the value, or the panic of an
\* index out of range
Panic == [panicked |-> TRUE]
Returned(v) == [panicked |-> FALSE, val |-> v]

\* &self.pixels[height][width]
at_pixel(cv, width, height) ==
    IF height \in DOMAIN cv.pixels /\ width \in DOMAIN cv.pixels[height]
    THEN Returned(cv.pixels[height][width])
    ELSE Panic

\* A String is modelled as the sequence of its characters
NL == "\n"
SP == " "
DigitChars == <<"0", "1", "2", "3", "4", "5", "6", "7", "8", "9">>

\* the decimal digits of n >= 0 (to_string of an i32 or usize that is not negative)
RECURSIVE to_string(_)
to_string(n) ==
    IF n < 10 THEN <<DigitChars[n + 1]>>
    ELSE to_string(n \div 10) \o <<DigitChars[(n % 10) + 1]>>

\* f64::ceil
Ceil(x) == IF IsFinite(x) THEN Int2F(-((-x[1]) \div x[2])) ELSE x

\* `as i32` of a float without fraction: NaN gives 0, the infinities saturate
AsI32(x) ==
    IF IsNaN(x) THEN 0
    ELSE IF IsInf(x) THEN (IF x[1] > 0 THEN 2147483647 ELSE -2147483647 - 1)
    ELSE x[1]

\* the match on the i32: n > 255 gives 255, n < 0 gives 0
Clamp(n) == IF n > 255 THEN 255 ELSE IF n < 0 THEN 0 ELSE n

\* (channel * 255.0).floor() in place of ceil()
ChannelValue_Floor(v) ==
    LET p == Mul(v, Int2F(255))
    IN Clamp(AsI32(IF IsFinite(p) THEN Int2F(p[1] \div p[2]) ELSE p))

\* the integer written for a channel
ChannelValue(v) == Clamp(AsI32(Ceil(Mul(v, Int2F(255)))))

\* Color::to_vec_string
to_vec_string(c) ==
    <<to_string(ChannelValue(c.red)), to_string(ChannelValue(c.green)),
      to_string(ChannelValue(c.blue))>>

\* format!("P3\n{} {}\n255\n", self.width, self.height)
PpmHeader(cv) ==
    <<"P", "3", NL>> \o to_string(cv.width) \o <<SP>> \o to_string(cv.height)
        \o <<NL, "2", "5", "5", NL>>

\* the closure of to_ppm without the line break (the value is always appended)
PushValue_NoWrap(ppm_vec, c) ==
    [ppm_vec EXCEPT ![Len(ppm_vec)] = @ \o c \o <<SP>>]

\* the closure over the strings of a color: append "c " to the last string of
\* ppm_vec, or end that string with a newline and start a new one with "c "
PushValue(ppm_vec, c) ==
    IF Len(ppm_vec[Len(ppm_vec)]) + Len(c) + 3 <= 70
    THEN [ppm_vec EXCEPT ![Len(ppm_vec)] = @ \o c \o <<SP>>]
    ELSE Append([ppm_vec EXCEPT ![Len(ppm_vec)] = @ \o <<NL>>], c \o <<SP>>)

\* the strings of a pixel taken in the order blue, green, red
PushColor_Bgr(ppm_vec, strs) ==
    PushValue(PushValue(PushValue(ppm_vec, strs[3]), strs[2]), strs[1])

\* the three strings of one pixel
PushColor(ppm_vec, strs) ==
    PushValue(PushValue(PushValue(ppm_vec, strs[1]), strs[2]), strs[3])

\* the pixels w, w + 1, ... of a row (ppm_vec is never empty: the closure
\* unwraps its last string)
RECURSIVE PushPixels(_, _, _)
PushPixels(ppm_vec, row, w) ==
    IF w >= ArrLen(row) \/ ppm_vec = <<>> THEN ppm_vec
    ELSE PushPixels(PushColor(ppm_vec, to_vec_string(row[w])), row, w + 1)

\* the end of a row without the newline
EndRow_NoNewline(ppm_vec) == Append(ppm_vec, <<>>)

\* the end of a row: a newline on the last string, then a new empty string
EndRow(ppm_vec) == Append([ppm_vec EXCEPT ![Len(ppm_vec)] = @ \o <<NL>>], <<>>)

\* the rows h, h + 1, ... of the canvas
RECURSIVE PushRows(_, _, _)
PushRows(ppm_vec, pixels, h) ==
    IF h >= ArrLen(pixels) \/ ppm_vec = <<>> THEN ppm_vec
    ELSE PushRows(EndRow(PushPixels(ppm_vec, pixels[h], 0)), pixels, h + 1)

\* ppm_vec.join("")
RECURSIVE Join(_, _)
Join(ppm_vec, i) ==
    IF i > Len(ppm_vec) THEN <<>> ELSE ppm_vec[i] \o Join(ppm_vec, i + 1)

\* Canvas::to_ppm
to_ppm(cv) == Join(PushRows(<<PpmHeader(cv), <<>>>>, cv.pixels, 0), 1)

-----------------------------------------------------------------------------
(* projectile.rs *)

Projectile_new(pos, vel) == [position |-> pos, velocity |-> vel]

Environment_new(gravity, wind) == [gravity |-> gravity, wind |-> wind]

\* tick updating the velocity first and moving by the updated velocity
tick_VelocityFirst(p, env) ==
    [position |-> TupleAdd(p.position, TupleAdd(TupleAdd(p.velocity, env.gravity), env.wind)),
     velocity |-> TupleAdd(TupleAdd(p.velocity, env.gravity), env.wind)]

\* self.position = self.position + self.velocity;
\* self.velocity = self.velocity + environment.gravity + environment.wind
tick(p, env) ==
    [position |-> TupleAdd(p.position, p.velocity),
     velocity |-> TupleAdd(TupleAdd(p.velocity, env.gravity), env.wind)]

-----------------------------------------------------------------------------
(* The states the components are constructed in *)

MaxN == 3        \* an Intersections array holds 0..MaxN records
MaxT == 2        \* the t of a record is an integer in -MaxT..MaxT, or NaN

HitIdle == data = <<>> /\ hit_result = NotCalled
SphereIdle ==
    sphere = Sphere_new(1) /\ xs = NotCalled /\ last_set = None /\ normal = NotCalled
MatrixIdle == matrix = Matrix_new(N4) /\ mres = NotCalled /\ mcalls = 0
CanvasIdle == canvas = Canvas_new(0, 0) /\ cres = NotCalled
WriterIdle == created = Canvas_new(0, 0) /\ log = <<>>
TupleIdle == tres = NotCalled
ProjIdle ==
    /\ projectile = Projectile_new(new_point(Zero, Zero, Zero), new_vector(Zero, Zero, Zero))
    /\ environment = Environment_new(new_vector(Zero, Zero, Zero), new_vector(Zero, Zero, Zero))
    /\ launched = projectile
    /\ ticks = 0

-----------------------------------------------------------------------------
(* Intersections::new and Intersections::hit *)

TValues == {Int2F(i) : i \in (-MaxT)..MaxT} \cup {NaN}

\* Intersections::new(data): N records, record i holding its own sphere (id i),
\* so that records with equal t are told apart
HitInit ==
    /\ \E n \in 0..MaxN :
         \E ts \in [0..(n - 1) -> TValues] :
            data = [i \in 0..(n - 1) |-> Intersection_new(ts[i], Sphere_new(i))]
    /\ hit_result = NotCalled

Hit ==
    /\ hit_result' = [op |-> "hit", ret |-> hit(data)]
    /\ UNCHANGED <<data, sphereVars, matrixVars, canvasVars, writerVars, tres, projVars>>

InitHit ==
    HitInit /\ SphereIdle /\ MatrixIdle /\ CanvasIdle /\ WriterIdle /\ TupleIdle /\ ProjIdle
NextHit == Hit
SpecHit == InitHit /\ [][NextHit]_vars

\* the indices of the records that qualify: t > 0
Qualifying == {i \in DOMAIN data : Gt(data[i].value, Zero)}

\* the indices of the qualifying records of minimal t
Nearest == {i \in Qualifying : \A j \in Qualifying : Le(data[i].value, data[j].value)}

MinOf(S) == CHOOSE i \in S : \A j \in S : i <= j

\* C1: hit() returns a record exactly when some record has t > 0; the record it
\* returns is one of the array's records, has t > 0, and has t <= the t of every
\* record with t > 0
C1_HitNearestPositive ==
    hit_result.op = "hit" =>
        /\ hit_result.ret.is_some <=> Qualifying # {}
        /\ hit_result.ret.is_some =>
              /\ \E i \in DOMAIN data : data[i] = hit_result.ret.val
              /\ Gt(hit_result.ret.val.value, Zero)
              /\ \A j \in Qualifying : Le(hit_result.ret.val.value, data[j].value)

\* hit() was called on an array holding a record with t > 0, a record with t = 0
\* and a record with t < 0, and returned a record
C1_Witness ==
    /\ hit_result.op = "hit"
    /\ hit_result.ret.is_some
    /\ \E i, j, k \in DOMAIN data :
          /\ Gt(data[i].value, Zero)
          /\ Eq(data[j].value, Zero)
          /\ Lt(data[k].value, Zero)

\* C2: among records that share the minimal positive t, hit() returns the one
\* of lowest index
C2_HitFirstOfTies ==
    (hit_result.op = "hit" /\ Qualifying # {}) =>
        hit_result.ret = Some(data[MinOf(Nearest)])

\* hit() was called on an array in which two records share the minimal positive
\* t, with a record of larger t before them
C2_Witness ==
    /\ hit_result.op = "hit"
    /\ Cardinality(Nearest) >= 2
    /\ \E i \in Qualifying : i < MinOf(Nearest)
    /\ hit_result.ret = Some(data[MinOf(Nearest)])

-----------------------------------------------------------------------------
(* Sphere::new, Sphere::set_translation and Sphere::intersect *)

MaxScale == 2    \* uniform scalings by s in -MaxScale..MaxScale (0 is singular)
MaxShift == 1    \* translations by (0, k, 0), k in -MaxShift..MaxShift
MaxY == 2        \* ray origins (0, y, z), y in 0..MaxY

\* the transforms handed to set_translation: built by the builders of matrix.rs
Transforms ==
    {scaling(Int2F(k), Int2F(k), Int2F(k)) : k \in (-MaxScale)..MaxScale}
    \cup {translation(Zero, Int2F(k), Zero) : k \in (-MaxShift)..MaxShift}
    \cup {sheering(One, Zero, Zero, Zero, Zero, Zero),
          scaling(One, Zero, One),
          MatrixMul(translation(Zero, One, Zero), scaling(Int2F(2), Int2F(2), Int2F(2)))}

RayOriginZ == {-5, 0, 5}
RayDirections ==
    {new_vector(Zero, Zero, One), new_vector(Zero, One, One), new_vector(Zero, Zero, Zero)}

Rays ==
    {Ray_new(new_point(Zero, Int2F(y), Int2F(z)), d) :
        y \in 0..MaxY, z \in RayOriginZ, d \in RayDirections}

SphereInit ==
    sphere = Sphere_new(1) /\ xs = NotCalled /\ last_set = None /\ normal = NotCalled

\* the states of the sphere, and intersect tabulated over them and the rays
\* (intersect is a pure function of the sphere and the ray)
Spheres == {set_translation(Sphere_new(1), m) : m \in Transforms}
IntersectOf == [s \in Spheres, r \in Rays |-> intersect(s, r)]

SetTranslation ==
    /\ \E m \in Transforms :
         /\ sphere' = set_translation(sphere, m)
         /\ last_set' = Some(m)
    /\ UNCHANGED <<xs, normal, hitVars, matrixVars, canvasVars, writerVars, tres, projVars>>

Intersect ==
    /\ \E r \in Rays :
         LET got == IntersectOf[sphere, r]
         IN xs' = [op |-> "intersect", self |-> sphere, ray |-> r,
                   ret |-> got.ret, discriminant |-> got.discriminant]
    /\ UNCHANGED <<sphere, last_set, normal, hitVars, matrixVars, canvasVars, writerVars,
                   tres, projVars>>

\* the points handed to normal_at: the points of tests::normal_on_x_axis and
\* normal_on_z_axis, a point off the unit sphere, and the centre
NormalPoints ==
    {new_point(One, Zero, Zero), new_point(Zero, Zero, One),
     new_point(Int2F(1), Int2F(2), Int2F(2)), new_point(Zero, Zero, Zero)}

NormalAt ==
    /\ \E p \in NormalPoints :
         normal' = [op |-> "normal_at", point |-> p, ret |-> normal_at(sphere, p)]
    /\ UNCHANGED <<sphere, xs, last_set, hitVars, matrixVars, canvasVars, writerVars,
                   tres, projVars>>

InitSphere ==
    SphereInit /\ HitIdle /\ MatrixIdle /\ CanvasIdle /\ WriterIdle /\ TupleIdle /\ ProjIdle
NextSphere == SetTranslation \/ Intersect \/ NormalAt
SpecSphere == InitSphere /\ [][NextSphere]_vars

\* the transform and the ray of the recorded intersect call, the ray in object
\* space, and the discriminant b^2 - 4ac of the object-space ray
CallTransform == xs.self.transformation
CallObjectRay == Ray_transform(xs.ray, inverse(CallTransform).val)
CallDiscriminant ==
    LET lr == CallObjectRay IN Discriminant(QuadA(lr), QuadB(lr), QuadC(lr))
CallT(i) == xs.ret.val[i].value

ZeroDirection(r) ==
    /\ Eq(r.direction.x, Zero) /\ Eq(r.direction.y, Zero)
    /\ Eq(r.direction.z, Zero) /\ Eq(r.direction.w, Zero)

NoIntersection == Err("Discriminant is lower then 0")
TransformNotInvertible == Err("inverse failed")

\* C3 as stated: with an invertible transform, intersect fails with
\* NoIntersection exactly when the discriminant is negative, returns two records
\* otherwise, and the two records have equal t when the discriminant is 0
C3_Original ==
    (xs.op = "intersect" /\ invertible(CallTransform)) =>
        LET disc == CallDiscriminant
        IN /\ xs.ret = NoIntersection <=> Lt(disc, Zero)
           /\ ~Lt(disc, Zero) => (xs.ret.is_ok /\ ArrLen(xs.ret.val) = 2)
           /\ Eq(disc, Zero) => (xs.ret.is_ok /\ Eq(CallT(0), CallT(1)))

\* C3: with an invertible transform, intersect fails with NoIntersection exactly
\* when the discriminant of the object-space ray is negative and returns exactly
\* two records otherwise; when the discriminant is 0 and the direction of the ray
\* is not the zero tuple, the two records have equal t
C3_MissIffNegativeDiscriminant ==
    (xs.op = "intersect" /\ invertible(CallTransform)) =>
        LET disc == CallDiscriminant
        IN /\ xs.ret = NoIntersection <=> Lt(disc, Zero)
           /\ ~Lt(disc, Zero) => (xs.ret.is_ok /\ ArrLen(xs.ret.val) = 2)
           /\ (Eq(disc, Zero) /\ ~ZeroDirection(xs.ray)) =>
                 (xs.ret.is_ok /\ Eq(CallT(0), CallT(1)))

\* intersect was called with a tangent ray of non-zero direction on a sphere with
\* a transform other than the identity, and returned two records of equal t
C3_Witness ==
    /\ xs.op = "intersect"
    /\ invertible(CallTransform)
    /\ CallTransform # identity_matrix
    /\ ~ZeroDirection(xs.ray)
    /\ Eq(CallDiscriminant, Zero)
    /\ xs.ret.is_ok
    /\ Eq(CallT(0), CallT(1))

\* C4 as stated: whenever intersect returns two records, t1 <= t2
C4_Original ==
    (xs.op = "intersect" /\ xs.ret.is_ok) => Le(CallT(0), CallT(1))

\* C4: whenever intersect returns two records for a ray whose direction is not
\* the zero tuple, the t of the first record is <= the t of the second
C4_RootsOrdered ==
    (xs.op = "intersect" /\ xs.ret.is_ok /\ ~ZeroDirection(xs.ray)) =>
        Le(CallT(0), CallT(1))

\* intersect returned two records with t1 < t2 < 0 (the sphere is behind the ray)
C4_Witness ==
    /\ xs.op = "intersect"
    /\ xs.ret.is_ok
    /\ ~ZeroDirection(xs.ray)
    /\ Lt(CallT(0), CallT(1))
    /\ Lt(CallT(1), Zero)

\* C5: when the determinant of the sphere's transform is 0, intersect fails with
\* TransformNotInvertible for every ray, before the discriminant is evaluated,
\* and that failure differs from NoIntersection
C5_SingularTransformFails ==
    (xs.op = "intersect" /\ Eq(determinant(CallTransform), Zero)) =>
        /\ xs.ret = TransformNotInvertible
        /\ xs.discriminant = NotEvaluated
        /\ xs.ret # NoIntersection

\* intersect was called on a sphere whose transform is singular but not the zero
\* matrix, and failed with TransformNotInvertible
C5_Witness ==
    /\ xs.op = "intersect"
    /\ Eq(determinant(CallTransform), Zero)
    /\ CallTransform # Matrix_new(N4)
    /\ xs.ret = TransformNotInvertible

\* the point is at distance 1 from the object-space origin point(0, 0, 0)
OnUnitSphere(p) ==
    LET v == TupleSub(p, new_point(Zero, Zero, Zero)) IN Eq(dot_product(v, v), One)

\* inverse(M) * r.position(t) for the t of record i of the recorded call
CallObjectPoint(i) ==
    MatrixMulTuple(inverse(CallTransform).val, position(xs.ray, CallT(i)))

TestRay == Ray_new(new_point(Zero, Zero, Int2F(-5)), new_vector(Zero, Zero, One))

\* the sphere scaled by (s, s, s) and the ray from (0, 0, -5) along (0, 0, 1)
\* give t = 5 - s and t = 5 + s
ScaledExample ==
    \A s \in ((-MaxScale)..MaxScale) \ {0} :
        (CallTransform = scaling(Int2F(s), Int2F(s), Int2F(s)) /\ xs.ray = TestRay) =>
            /\ xs.ret.is_ok
            /\ {CallT(0), CallT(1)} = {Int2F(5 - s), Int2F(5 + s)}

-----------------------------------------------------------------------------
(* Matrix::new, Matrix::from, Matrix::get, Matrix::insert and Matrix::inverse *)

MaxCalls == 1    \* the Matrix calls (get, insert, inverse) made in one run
MaxVal == 1      \* insert writes a value in 0..MaxVal

\* the matrices of tests::multiply_product_by_inverse and tests::is_invertible
TestMatrixA ==
    FromRows(<<<<3, -9, 7, 3>>, <<3, -8, 2, -9>>, <<-4, 9, 6, 4>>, <<-7, 6, 6, 2>>>>)
TestMatrixB ==
    FromRows(<<<<8, 2, 2, 2>>, <<3, -1, 7, 0>>, <<7, 0, 5, 4>>, <<6, -2, 0, 5>>>>)
TestMatrixC ==
    FromRows(<<<<6, 4, 4, 4>>, <<5, 5, 7, 6>>, <<4, -9, 3, -7>>, <<9, 1, 7, -6>>>>)

\* the matrices a run starts from: Matrix::new() of each size, the transforms,
\* and the matrices of the tests
StartMatrices ==
    {Matrix_new(N2), Matrix_new(N3), Matrix_new(N4)}
    \cup Transforms
    \cup {TestMatrixA, TestMatrixB, TestMatrixC}

MatrixInit == matrix \in StartMatrices /\ mres = NotCalled /\ mcalls = 0

Get ==
    /\ mcalls < MaxCalls
    /\ \E i1, i2 \in 0..Size(matrix) :
         mres' = [op |-> "get", before |-> matrix, args |-> <<i1, i2>>,
                  ret |-> Matrix_get(matrix, i1, i2)]
    /\ mcalls' = mcalls + 1
    /\ UNCHANGED <<matrix, hitVars, sphereVars, canvasVars, writerVars, tres, projVars>>

Insert ==
    /\ mcalls < MaxCalls
    /\ \E i1, i2 \in 0..Size(matrix) : \E k \in 0..MaxVal :
         LET got == Matrix_insert(matrix, i1, i2, Int2F(k))
         IN /\ matrix' = got[1]
            /\ mres' = [op |-> "insert", before |-> matrix, args |-> <<i1, i2, Int2F(k)>>,
                        ret |-> got[2]]
    /\ mcalls' = mcalls + 1
    /\ UNCHANGED <<hitVars, sphereVars, canvasVars, writerVars, tres, projVars>>

\* inverse exists for Matrix<T, 4> only
Inverse ==
    /\ mcalls < MaxCalls
    /\ Size(matrix) = N4
    /\ mres' = [op |-> "inverse", before |-> matrix, args |-> <<>>,
                ret |-> inverse(matrix)]
    /\ mcalls' = mcalls + 1
    /\ UNCHANGED <<matrix, hitVars, sphereVars, canvasVars, writerVars, tres, projVars>>

InitMatrix ==
    MatrixInit /\ HitIdle /\ SphereIdle /\ CanvasIdle /\ WriterIdle /\ TupleIdle /\ ProjIdle
NextMatrix == Get \/ Insert \/ Inverse
SpecMatrix == InitMatrix /\ [][NextMatrix]_vars

\* the failure of an out-of-range insert
IndexOutOfBounds == Matrix_insert(Matrix_new(N4), N4, N4, Zero)[2]

\* C7 as stated: inverse() returns a matrix exactly when invertible(), that is
\* when determinant() != 0; when determinant() == 0 it returns a failure, and
\* that failure differs from the IndexOutOfBounds failure of insert
C7_Original ==
    mres.op = "inverse" =>
        /\ mres.ret.is_ok <=> invertible(mres.before)
        /\ mres.ret.is_ok <=> Ne(determinant(mres.before), Zero)
        /\ Eq(determinant(mres.before), Zero) =>
              (~mres.ret.is_ok /\ mres.ret # IndexOutOfBounds)

\* C8: for an invertible 4x4 matrix M, M * inverse(M) == identity, and
\* (A * M) * inverse(M) == A for every 4x4 matrix A of the model, under the
\* equality of Matrix
C8_InverseIsRightInverse ==
    (mres.op = "inverse" /\ mres.ret.is_ok) =>
        /\ MatrixEq(MatrixMul(mres.before, mres.ret.val), identity_matrix)
        /\ \A A \in {TestMatrixA, TestMatrixB, TestMatrixC} \cup Transforms :
              MatrixEq(MatrixMul(MatrixMul(A, mres.before), mres.ret.val), A)

\* inverse was called on the matrix b of tests::multiply_product_by_inverse and
\* returned a matrix with (a * b) * inverse(b) == a
C8_Witness ==
    /\ mres.op = "inverse"
    /\ mres.before = TestMatrixB
    /\ mres.ret.is_ok
    /\ mres.ret.val # TestMatrixB
    /\ MatrixEq(MatrixMul(MatrixMul(TestMatrixA, TestMatrixB), mres.ret.val), TestMatrixA)

\* C9: get and insert are bounds-checked for every N: in range, insert returns Ok,
\* a following get of the cell returns the value written and every other cell is
\* unchanged; out of range, get returns None, insert fails with IndexOutOfBounds
\* and the matrix is unchanged
C9_GetInsertBoundsChecked ==
    /\ mres.op = "insert" =>
          LET n == Size(mres.before)
              i1 == mres.args[1]
              i2 == mres.args[2]
          IN IF i1 < n /\ i2 < n
             THEN /\ mres.ret = Ok(Unit)
                  /\ Matrix_get(matrix, i1, i2) = Some(mres.args[3])
                  /\ Size(matrix) = n
                  /\ \A r, c \in 0..(n - 1) :
                        <<r, c>> # <<i1, i2>> => matrix[r][c] = mres.before[r][c]
             ELSE /\ mres.ret = Err("index out of bounds")
                  /\ matrix = mres.before
    /\ mres.op = "get" =>
          LET n == Size(mres.before)
              i1 == mres.args[1]
              i2 == mres.args[2]
          IN /\ matrix = mres.before
             /\ IF i1 < n /\ i2 < n
                THEN mres.ret = Some(mres.before[i1][i2])
                ELSE mres.ret = None

\* insert wrote a value into a cell off the diagonal of a 3x3 matrix that held
\* another value
C9_Witness ==
    /\ mres.op = "insert"
    /\ Size(mres.before) = N3
    /\ mres.ret = Ok(Unit)
    /\ mres.args[1] # mres.args[2]
    /\ matrix # mres.before
    /\ matrix[mres.args[1]][mres.args[2]] = mres.args[3]

-----------------------------------------------------------------------------
(* Canvas::new, Canvas::new_with_color and Canvas::write_pixel *)

MaxWidth == 2    \* a canvas is 0..MaxWidth pixels wide
MaxHeight == 2   \* and 0..MaxHeight pixels high

Black == Color_new(Zero, Zero, Zero)
Red == Color_new(One, Zero, Zero)
Colors == {Black, Red}

CanvasInit ==
    /\ \E w \in 0..MaxWidth : \E h \in 0..MaxHeight :
          \/ canvas = Canvas_new(w, h)
          \/ canvas = new_with_color(w, h, Red)
    /\ cres = NotCalled

WritePixel ==
    /\ \E x \in 0..(MaxWidth + 1) : \E y \in 0..(MaxHeight + 1) : \E color \in Colors :
         LET got == write_pixel(canvas, x, y, color)
         IN /\ canvas' = got[1]
            /\ cres' = [op |-> "write_pixel", before |-> canvas,
                        args |-> <<x, y, color>>, ret |-> got[2]]
    /\ UNCHANGED <<hitVars, sphereVars, matrixVars, writerVars, tres, projVars>>

AtPixel ==
    /\ \E x \in 0..(MaxWidth + 1) : \E y \in 0..(MaxHeight + 1) :
         cres' = [op |-> "at_pixel", before |-> canvas, args |-> <<x, y>>,
                  ret |-> at_pixel(canvas, x, y)]
    /\ UNCHANGED <<canvas, hitVars, sphereVars, matrixVars, writerVars, tres, projVars>>

InitCanvas ==
    CanvasInit /\ HitIdle /\ SphereIdle /\ MatrixIdle /\ WriterIdle /\ TupleIdle /\ ProjIdle
NextCanvas == WritePixel \/ AtPixel
SpecCanvas == InitCanvas /\ [][NextCanvas]_vars

\* C10: write_pixel(x, y, color) returns Ok exactly when x < width and
\* y < height; otherwise it returns the out-of-bounds error and leaves the canvas
\* unchanged
C10_WritePixelBoundsChecked ==
    cres.op = "write_pixel" =>
        LET x == cres.args[1]
            y == cres.args[2]
        IN /\ cres.ret = Ok(Unit) <=> (x < cres.before.width /\ y < cres.before.height)
           /\ cres.ret # Ok(Unit) =>
                 (cres.ret = Err("invalid index") /\ canvas = cres.before)

\* write_pixel was refused for an x that is out of range and would be in range
\* as a y, and was accepted with x and y exchanged
C10_Witness ==
    /\ cres.op = "write_pixel"
    /\ cres.args[1] >= cres.before.width
    /\ cres.args[1] < cres.before.height
    /\ cres.args[2] < cres.before.width
    /\ cres.ret = Err("invalid index")
    /\ canvas = cres.before
    /\ \E p \in Colors : p # cres.args[3] /\ \E h \in DOMAIN canvas.pixels :
          \E w \in DOMAIN canvas.pixels[h] : canvas.pixels[h][w] = p

\* C12 as stated: at_pixel of a coordinate with x >= width or y >= height
\* returns a failure and does not panic
C12_Original ==
    (cres.op = "at_pixel"
       /\ (cres.args[1] >= cres.before.width \/ cres.args[2] >= cres.before.height)) =>
        ~cres.ret.panicked

-----------------------------------------------------------------------------
(* Workers writing to one shared Canvas, one write_pixel call at a time *)

MaxWrites == 2   \* the write_pixel calls made on the shared canvas in one run

Green == Color_new(Zero, One, Zero)
Workers == {"a", "b"}
WorkerColor == [a |-> Red, b |-> Green]

WriterInit ==
    /\ \E w \in 1..MaxWidth : \E h \in 1..MaxHeight :
          \/ canvas = Canvas_new(w, h)
          \/ canvas = new_with_color(w, h, Red)
    /\ cres = NotCalled
    /\ created = canvas
    /\ log = <<>>

\* worker wk calls write_pixel(x, y, its color) while it holds the canvas
WorkerWrite(wk) ==
    /\ Len(log) < MaxWrites
    /\ \E x \in 0..canvas.width : \E y \in 0..(canvas.height - 1) :
         LET got == write_pixel(canvas, x, y, WorkerColor[wk])
         IN /\ canvas' = got[1]
            /\ cres' = [op |-> "write_pixel", before |-> canvas,
                        args |-> <<x, y, WorkerColor[wk]>>, ret |-> got[2]]
            /\ log' = Append(log, [worker |-> wk, x |-> x, y |-> y,
                                   color |-> WorkerColor[wk], ret |-> got[2]])
    /\ UNCHANGED <<created, hitVars, sphereVars, matrixVars, tres, projVars>>

InitWriters ==
    WriterInit /\ HitIdle /\ SphereIdle /\ MatrixIdle /\ TupleIdle /\ ProjIdle
NextWriters == \E wk \in Workers : WorkerWrite(wk)
SpecWriters == InitWriters /\ [][NextWriters]_vars

\* the coordinates of the canvas
Coordinates(cv) == {c \in (0..(cv.width - 1)) \X (0..(cv.height - 1)) : TRUE}

\* the indices of the successful writes of the log to (x, y)
WritesTo(x, y) ==
    {i \in 1..Len(log) : log[i].x = x /\ log[i].y = y /\ log[i].ret = Ok(Unit)}

\* the largest element of a non-empty set of integers
Latest(S) == CHOOSE i \in S : \A j \in S : j <= i

\* C11: after a successful write_pixel(x, y, c), at_pixel(x, y) returns c and
\* at_pixel of every other coordinate returns what it returned before the write;
\* after any sequence of writes every coordinate holds the color of the last
\* successful write to it, or the color the canvas was created with
C11_WriteThenRead ==
    /\ (cres.op = "write_pixel" /\ cres.ret = Ok(Unit)) =>
          \A c \in Coordinates(canvas) :
             at_pixel(canvas, c[1], c[2]) =
                IF c = <<cres.args[1], cres.args[2]>>
                THEN Returned(cres.args[3])
                ELSE at_pixel(cres.before, c[1], c[2])
    /\ \A c \in Coordinates(canvas) :
          at_pixel(canvas, c[1], c[2]) =
             IF WritesTo(c[1], c[2]) = {}
             THEN at_pixel(created, c[1], c[2])
             ELSE Returned(log[Latest(WritesTo(c[1], c[2]))].color)

\* a coordinate was written twice with different colors, another coordinate was
\* not written, and the last write succeeded
C11_Witness ==
    /\ cres.op = "write_pixel" /\ cres.ret = Ok(Unit)
    /\ \E c \in Coordinates(canvas) :
          /\ Cardinality(WritesTo(c[1], c[2])) = 2
          /\ \E i, j \in WritesTo(c[1], c[2]) : i < j /\ log[i].color # log[j].color
          /\ at_pixel(canvas, c[1], c[2]) = Returned(log[Len(log)].color)
    /\ \E c \in Coordinates(canvas) :
          /\ WritesTo(c[1], c[2]) = {}
          /\ at_pixel(canvas, c[1], c[2]) = at_pixel(created, c[1], c[2])

\* the canvas after the writes ws[order[1]], ws[order[2]], ... made from cv
RECURSIVE Replay(_, _, _, _)
Replay(cv, ws, order, i) ==
    IF i > Len(order) THEN cv
    ELSE LET e == ws[order[i]]
         IN Replay(write_pixel(cv, e.x, e.y, e.color)[1], ws, order, i + 1)

\* the orders in which the writes of the log can be made
Orders ==
    {p \in [1..Len(log) -> 1..Len(log)] : \A i, j \in 1..Len(log) : p[i] = p[j] => i = j}

\* the writes of the log are to pairwise distinct coordinates of the canvas
DistinctInBounds ==
    /\ \A i \in 1..Len(log) : <<log[i].x, log[i].y>> \in Coordinates(created)
    /\ \A i, j \in 1..Len(log) :
          (log[i].x = log[j].x /\ log[i].y = log[j].y) => i = j

\* C13: when the workers' writes are to pairwise distinct in-bounds coordinates,
\* the writes made in any order end in the canvas reached: every written
\* coordinate holds the color of its worker, every other one its initial color
C13_WritesCommute ==
    DistinctInBounds =>
        /\ \A p \in Orders : Replay(created, log, p, 1) = canvas
        /\ \A c \in Coordinates(canvas) :
              canvas.pixels[c[2]][c[1]] =
                 IF \E i \in 1..Len(log) : log[i].x = c[1] /\ log[i].y = c[2]
                 THEN WorkerColor[log[CHOOSE i \in 1..Len(log) :
                                         log[i].x = c[1] /\ log[i].y = c[2]].worker]
                 ELSE created.pixels[c[2]][c[1]]

\* two workers have each written one of two coordinates of the same row, and
\* the writes made in the other order end in the same canvas
C13_Witness ==
    /\ Len(log) = MaxWrites
    /\ DistinctInBounds
    /\ \E i, j \in 1..Len(log) :
          /\ i < j /\ log[i].worker # log[j].worker
          /\ log[i].y = log[j].y /\ log[i].x > log[j].x
    /\ \E p \in Orders : p[1] # 1 /\ Replay(created, log, p, 1) = canvas
    /\ canvas # created

-----------------------------------------------------------------------------
(* Canvas::to_ppm and Color::to_vec_string *)

MaxPpmWidth == 8    \* a canvas to encode is 0..MaxPpmWidth pixels wide
MaxPpmHeight == 2   \* and 0..MaxPpmHeight pixels high

\* the color of tests::check_lines_split_ppm (255 204 153), and one whose values
\* have three, two and one digits (128 26 0)
Cream == Color_new(One, Frac(4, 5), Frac(3, 5))
Mixed == Color_new(Frac(1, 2), Frac(1, 10), Zero)
PpmColors == {Black, Cream, Mixed}

\* the canvases to encode: as constructed, or after one write_pixel
PpmCanvases ==
    UNION {
        {new_with_color(w, h, c)} \cup
        {write_pixel(new_with_color(w, h, c), x, y, d)[1] :
            x \in 0..(w - 1), y \in 0..(h - 1), d \in PpmColors \ {c}} :
        w \in 0..MaxPpmWidth, h \in 0..MaxPpmHeight, c \in PpmColors}

\* the channel values of the colors handed to to_vec_string
Channels ==
    {Frac(-1, 2), Zero, Frac(1, 255), Frac(1, 2), Frac(4, 5), One, Frac(3, 2),
     NaN, PosInf, NegInf}

PpmInit == canvas \in PpmCanvases /\ cres = NotCalled

ToPpm ==
    /\ cres' = [op |-> "to_ppm", before |-> canvas, ret |-> to_ppm(canvas)]
    /\ UNCHANGED <<canvas, hitVars, sphereVars, matrixVars, writerVars, tres, projVars>>

ToVecString ==
    /\ cres = NotCalled
    /\ \E r, g, b \in Channels :
         cres' = [op |-> "to_vec_string", before |-> Color_new(r, g, b),
                  ret |-> to_vec_string(Color_new(r, g, b))]
    /\ UNCHANGED <<canvas, hitVars, sphereVars, matrixVars, writerVars, tres, projVars>>

InitPpm ==
    PpmInit /\ HitIdle /\ SphereIdle /\ MatrixIdle /\ WriterIdle /\ TupleIdle /\ ProjIdle
NextPpm == ToPpm
SpecPpm == InitPpm /\ [][NextPpm]_vars

InitColor ==
    CanvasIdle /\ HitIdle /\ SphereIdle /\ MatrixIdle /\ WriterIdle /\ TupleIdle /\ ProjIdle
NextColor == ToVecString
SpecColor == InitColor /\ [][NextColor]_vars

\* the pieces of a text between the occurrences of a separator character (the
\* piece after the last separator is the last one, empty when the text ends
\* with the separator)
Split(text, sep) ==
    LET P == {i \in 1..Len(text) : text[i] = sep}
        n == Cardinality(P)
        Kth(k) == IF k = 0 THEN 0
                  ELSE IF k = n + 1 THEN Len(text) + 1
                  ELSE CHOOSE i \in P : Cardinality({j \in P : j <= i}) = k
    IN [k \in 1..(n + 1) |-> SubSeq(text, Kth(k - 1) + 1, Kth(k) - 1)]

\* the lines of a text
Lines(text) == Split(text, NL)

\* C14: no line of the text produced by to_ppm is longer than 70 characters
C14_LinesAtMost70 ==
    cres.op = "to_ppm" => \A i \in DOMAIN Lines(cres.ret) : Len(Lines(cres.ret)[i]) <= 70

\* to_ppm broke a row of values into two lines, the first of them as long as a
\* line gets (68 characters)
C14_Witness ==
    /\ cres.op = "to_ppm"
    /\ \E i \in DOMAIN Lines(cres.ret) :
          /\ Len(Lines(cres.ret)[i]) = 68
          /\ i + 1 \in DOMAIN Lines(cres.ret)
          /\ Len(Lines(cres.ret)[i + 1]) > 0

\* C15: the text produced by to_ppm ends with a newline, also for a canvas of
\* width 0 or height 0
C15_EndsWithNewline ==
    cres.op = "to_ppm" => (Len(cres.ret) > 0 /\ cres.ret[Len(cres.ret)] = NL)

\* to_ppm of a canvas with rows and no columns ended with a newline
C15_Witness ==
    /\ cres.op = "to_ppm"
    /\ cres.before.width = 0 /\ cres.before.height > 0
    /\ cres.ret[Len(cres.ret)] = NL

\* the number a string of decimal digits stands for
DigitValue(ch) == CHOOSE d \in 0..9 : DigitChars[d + 1] = ch
RECURSIVE ParseNat(_)
ParseNat(str) ==
    IF Len(str) = 1 THEN DigitValue(str[1])
    ELSE 10 * ParseNat(SubSeq(str, 1, Len(str) - 1)) + DigitValue(str[Len(str)])

\* the numbers of a line: its pieces between spaces, the empty ones left out
IsNumeral(str) == Len(str) > 0 /\ \A i \in 1..Len(str) : \E d \in 1..10 : DigitChars[d] = str[i]
NonEmpty(str) == Len(str) > 0
Values(line) ==
    LET toks == SelectSeq(Split(line, SP), NonEmpty)
    IN [i \in 1..Len(toks) |-> IF IsNumeral(toks[i]) THEN ParseNat(toks[i]) ELSE -1]

\* the lines after the three header lines, the empty piece after the final
\* newline left out
BodyLines(text) == SubSeq(Lines(text), 4, Len(Lines(text)) - 1)

\* the values of the lines 1..n of a sequence of lines, in order
RECURSIVE ValuesUpTo(_, _)
ValuesUpTo(lines, n) ==
    IF n = 0 THEN <<>> ELSE ValuesUpTo(lines, n - 1) \o Values(lines[n])

\* the values of a canvas in row-major pixel order, red, green, blue per pixel
RowMajor(cv) ==
    [k \in 1..(3 * cv.width * cv.height) |->
        LET px == cv.pixels[(k - 1) \div (3 * cv.width)][((k - 1) \div 3) % cv.width]
        IN ChannelValue(IF (k - 1) % 3 = 0 THEN px.red
                        ELSE IF (k - 1) % 3 = 1 THEN px.green ELSE px.blue)]

\* C16: the text of to_ppm starts with the lines "P3", "<width> <height>" and
\* "255", followed by exactly 3 * width * height values in row-major pixel
\* order, red, green, blue per pixel; the values of each canvas row start on a
\* new line
C16_HeaderAndRowMajorValues ==
    cres.op = "to_ppm" =>
        LET cv == cres.before
            body == BodyLines(cres.ret)
        IN /\ Len(Lines(cres.ret)) >= 4
           /\ Lines(cres.ret)[1] = <<"P", "3">>
           /\ Split(Lines(cres.ret)[2], SP) = <<to_string(cv.width), to_string(cv.height)>>
           /\ Values(Lines(cres.ret)[2]) = <<cv.width, cv.height>>
           /\ Lines(cres.ret)[3] = <<"2", "5", "5">>
           /\ ValuesUpTo(body, Len(body)) = RowMajor(cv)
           /\ \A r \in 0..(cv.height - 1) :
                 \E n \in r..Len(body) :
                    /\ Len(ValuesUpTo(body, n)) = 3 * cv.width * r
                    /\ n < Len(body)

\* to_ppm of a canvas of two rows or more of different pixels, with a row broken
\* into two lines, gave the header and the values in row-major order
C16_Witness ==
    /\ cres.op = "to_ppm"
    /\ cres.before.height >= 2
    /\ \E x, y \in DOMAIN cres.before.pixels[0] :
          cres.before.pixels[0][x] # cres.before.pixels[0][y]
    /\ Len(BodyLines(cres.ret)) > cres.before.height
    /\ Values(Lines(cres.ret)[2]) = <<cres.before.width, cres.before.height>>
    /\ ValuesUpTo(BodyLines(cres.ret), Len(BodyLines(cres.ret))) = RowMajor(cres.before)

\* the channels of the color handed to to_vec_string, in the order of the strings
CallChannels == <<cres.before.red, cres.before.green, cres.before.blue>>

\* k is v * 255 rounded up and clamped to 0..255
RoundedUpAndClamped(v, k) ==
    LET p == Mul(v, Int2F(255))
    IN \/ Le(p, Zero) /\ k = 0
       \/ Gt(p, Int2F(254)) /\ k = 255
       \/ Lt(Int2F(k - 1), p) /\ Le(p, Int2F(k)) /\ k \in 1..254

\* C17: every channel is written as an integer in 0..255; for a channel that is
\* a number (+-infinity included) the integer is channel * 255 rounded up and
\* clamped to 0..255
C17_ChannelRoundedUpAndClamped ==
    cres.op = "to_vec_string" =>
        \A i \in 1..3 :
            /\ IsNumeral(cres.ret[i])
            /\ ParseNat(cres.ret[i]) \in 0..255
            /\ ~IsNaN(CallChannels[i]) =>
                  RoundedUpAndClamped(CallChannels[i], ParseNat(cres.ret[i]))

\* to_vec_string of the color (1.5, 0.5, -0.5) gave "255", "128" and "0"
C17_Witness ==
    /\ cres.op = "to_vec_string"
    /\ cres.before = Color_new(Frac(3, 2), Frac(1, 2), Frac(-1, 2))
    /\ cres.ret = <<<<"2", "5", "5">>, <<"1", "2", "8">>, <<"0">>>>

-----------------------------------------------------------------------------
(* Tuple: +, -, ==; Matrix * Tuple with a translation; Ray::transform *)

MaxCoord == 1    \* the coordinates of tuples and translations: -MaxCoord..MaxCoord

Coords == (-MaxCoord)..MaxCoord

\* points (w = 1) and vectors (w = 0)
Tuples ==
    {Tuple_new(Int2F(x), Int2F(y), Int2F(z), w) :
        x \in Coords, y \in Coords, z \in Coords, w \in {Zero, One}}

\* the components of the tuples compared: equal, closer than EPSILON, EPSILON
\* apart, further apart, and the values that are not numbers
EqValues == {Zero, Frac(1, 200000), Frac(1, 100000), One, NaN, PosInf}
EqTuples ==
    {Tuple_new(x, y, z, w) :
        x \in EqValues, y \in {Zero, Frac(1, 100000)}, z \in {Zero, One}, w \in {Zero, One}}

\* each call is a pure function of its operands: a run makes one call
TupleAddCall ==
    /\ tres = NotCalled
    /\ \E a, b \in Tuples : tres' = [op |-> "add", args |-> <<a, b>>, ret |-> TupleAdd(a, b)]
    /\ UNCHANGED <<hitVars, sphereVars, matrixVars, canvasVars, writerVars, projVars>>

TupleSubCall ==
    /\ tres = NotCalled
    /\ \E a, b \in Tuples : tres' = [op |-> "sub", args |-> <<a, b>>, ret |-> TupleSub(a, b)]
    /\ UNCHANGED <<hitVars, sphereVars, matrixVars, canvasVars, writerVars, projVars>>

TupleEqCall ==
    /\ tres = NotCalled
    /\ \E a, b \in EqTuples : tres' = [op |-> "eq", args |-> <<a, b>>, ret |-> TupleEq(a, b)]
    /\ UNCHANGED <<hitVars, sphereVars, matrixVars, canvasVars, writerVars, projVars>>

\* Matrix::translation(x, y, z) * t
TranslateTuple ==
    /\ tres = NotCalled
    /\ \E x, y, z \in Coords : \E t \in Tuples :
         tres' = [op |-> "mul", args |-> <<x, y, z, t>>,
                  ret |-> MatrixMulTuple(translation(Int2F(x), Int2F(y), Int2F(z)), t)]
    /\ UNCHANGED <<hitVars, sphereVars, matrixVars, canvasVars, writerVars, projVars>>

\* r.transform(Matrix::translation(x, y, z)); transform takes &self, so the
\* ray is after the call what it was before
TranslateRay ==
    /\ tres = NotCalled
    /\ \E x, y, z \in Coords : \E r \in Rays :
         tres' = [op |-> "transform", self |-> r, args |-> <<x, y, z>>,
                  ret |-> Ray_transform(r, translation(Int2F(x), Int2F(y), Int2F(z))),
                  after |-> r]
    /\ UNCHANGED <<hitVars, sphereVars, matrixVars, canvasVars, writerVars, projVars>>

InitTuple ==
    TupleIdle /\ HitIdle /\ SphereIdle /\ MatrixIdle /\ CanvasIdle /\ WriterIdle /\ ProjIdle
NextTuple ==
    TupleAddCall \/ TupleSubCall \/ TupleEqCall \/ TranslateTuple \/ TranslateRay
SpecTuple == InitTuple /\ [][NextTuple]_vars

IsPoint(t) == t.w = One
IsVector(t) == t.w = Zero

\* the tuple t with (x, y, z) added to its x, y, z (integer coordinates)
Shifted(t, x, y, z) ==
    [t EXCEPT !.x = Int2F(t.x[1] + x), !.y = Int2F(t.y[1] + y), !.z = Int2F(t.z[1] + z)]

\* C18: translation(x, y, z) * t is t shifted by (x, y, z) for a point t and is
\* t for a vector t; Ray::transform(translation(x, y, z)) returns a ray with the
\* origin shifted and the direction unchanged, and leaves the ray as it was
C18_TranslationShiftsPoints ==
    /\ tres.op = "mul" =>
          /\ IsPoint(tres.args[4]) =>
                tres.ret = Shifted(tres.args[4], tres.args[1], tres.args[2], tres.args[3])
          /\ IsVector(tres.args[4]) => tres.ret = tres.args[4]
    /\ tres.op = "transform" =>
          /\ tres.ret.origin =
                Shifted(tres.self.origin, tres.args[1], tres.args[2], tres.args[3])
          /\ tres.ret.direction = tres.self.direction
          /\ tres.after = tres.self

\* a ray with a direction other than zero was transformed by a translation other
\* than the identity: the origin moved, the direction did not
C18_Witness ==
    /\ tres.op = "transform"
    /\ tres.args[1] # 0 /\ tres.args[2] # 0 /\ tres.args[3] # 0
    /\ tres.self.direction # new_vector(Zero, Zero, Zero)
    /\ tres.ret.origin # tres.self.origin
    /\ IsPoint(tres.ret.origin)
    /\ tres.ret.direction = tres.self.direction

\* the component-wise sum and difference of tuples of integer components
SumOf(a, b) ==
    [x |-> Int2F(a.x[1] + b.x[1]), y |-> Int2F(a.y[1] + b.y[1]),
     z |-> Int2F(a.z[1] + b.z[1]), w |-> Int2F(a.w[1] + b.w[1])]
DifferenceOf(a, b) ==
    [x |-> Int2F(a.x[1] - b.x[1]), y |-> Int2F(a.y[1] - b.y[1]),
     z |-> Int2F(a.z[1] - b.z[1]), w |-> Int2F(a.w[1] - b.w[1])]

\* C19: + and - are component-wise on x, y, z and w, so point - point, vector +
\* vector and vector - vector are vectors, point + vector and point - vector are
\* points
C19_AddSubComponentWise ==
    LET a == tres.args[1]
        b == tres.args[2]
    IN /\ tres.op = "add" =>
             /\ tres.ret = SumOf(a, b)
             /\ (IsPoint(a) /\ IsVector(b)) => IsPoint(tres.ret)
             /\ (IsVector(a) /\ IsVector(b)) => IsVector(tres.ret)
       /\ tres.op = "sub" =>
             /\ tres.ret = DifferenceOf(a, b)
             /\ (IsPoint(a) /\ IsPoint(b)) => IsVector(tres.ret)
             /\ (IsPoint(a) /\ IsVector(b)) => IsPoint(tres.ret)
             /\ (IsVector(a) /\ IsVector(b)) => IsVector(tres.ret)

\* two different points were subtracted and the difference is a vector other
\* than zero
C19_Witness ==
    /\ tres.op = "sub"
    /\ IsPoint(tres.args[1]) /\ IsPoint(tres.args[2])
    /\ IsVector(tres.ret)
    /\ tres.ret # new_vector(Zero, Zero, Zero)
    /\ tres.ret = DifferenceOf(tres.args[1], tres.args[2])

\* the absolute difference of x and y is a number below 1e-5: with l the common
\* denominator and n the difference of the numerators over l, n / l < 1 / 100000,
\* that is n <= (l - 1) \div 100000
CommonDenominator(x, y) == (x[2] \div GCD(x[2], y[2])) * y[2]
CloserThanEpsilon(x, y) ==
    /\ IsFinite(x) /\ IsFinite(y)
    /\ Abs(x[1] * (CommonDenominator(x, y) \div x[2])
             - y[1] * (CommonDenominator(x, y) \div y[2]))
          <= (CommonDenominator(x, y) - 1) \div 100000

\* the two tuples have the same x, y and z
SameXYZ(a, b) == a.x = b.x /\ a.y = b.y /\ a.z = b.z

\* C20 as stated: two tuples are equal exactly when the differences of their x,
\* y and z are each below 1e-5, and a point equals the vector of the same x, y, z
\* for every x, y, z
C20_Original ==
    tres.op = "eq" =>
        LET a == tres.args[1]
            b == tres.args[2]
        IN /\ tres.ret <=> /\ CloserThanEpsilon(a.x, b.x)
                           /\ CloserThanEpsilon(a.y, b.y)
                           /\ CloserThanEpsilon(a.z, b.z)
           /\ SameXYZ(a, b) => tres.ret

\* C20: two tuples are equal exactly when the differences of their x, y and z
\* are each below 1e-5; w is not compared, so a point equals the vector of the
\* same x, y, z whenever x, y and z are finite numbers
C20_EqualityIgnoresW ==
    tres.op = "eq" =>
        LET a == tres.args[1]
            b == tres.args[2]
        IN /\ tres.ret <=> /\ CloserThanEpsilon(a.x, b.x)
                           /\ CloserThanEpsilon(a.y, b.y)
                           /\ CloserThanEpsilon(a.z, b.z)
           /\ (SameXYZ(a, b) /\ IsFinite(a.x) /\ IsFinite(a.y) /\ IsFinite(a.z)) =>
                 tres.ret

\* a point was found equal to a vector whose x differs by less than 1e-5
C20_Witness ==
    /\ tres.op = "eq"
    /\ IsPoint(tres.args[1]) /\ IsVector(tres.args[2])
    /\ tres.args[1].x # tres.args[2].x
    /\ tres.ret

-----------------------------------------------------------------------------
(* Matrix: determinant, Matrix * Tuple and Matrix * Matrix *)

MaxEntry == 1    \* a cell of a matrix is replaced by an integer in -MaxEntry..MaxEntry
MaxComp == 1     \* the x and y of a tuple are integers in -MaxComp..MaxComp, w in 0..MaxComp

\* the matrices of tests::determinant_3x3, tests::determinant_4x4,
\* tests::multiply_matrices_tuple and tests::identity_matrices
TestDet3 == FromRows(<<<<1, 2, 6>>, <<-5, 8, -4>>, <<2, 6, 4>>>>)
TestDet4 ==
    FromRows(<<<<-2, -8, 3, 5>>, <<-3, 1, 7, 3>>, <<1, 2, -9, 6>>, <<-6, 7, 7, -9>>>>)
TestMulTuple ==
    FromRows(<<<<1, 2, 3, 4>>, <<2, 4, 4, 2>>, <<8, 6, 4, 1>>, <<0, 0, 0, 1>>>>)
TestIdentity ==
    FromRows(<<<<0, 1, 2, 4>>, <<1, 2, 4, 8>>, <<2, 4, 8, 16>>, <<4, 8, 16, 32>>>>)

\* m with one cell replaced
Variants(m) ==
    {SetCell(m, i, j, Int2F(k)) : i \in DOMAIN m, j \in DOMAIN m, k \in (-MaxEntry)..MaxEntry}

Matrices2 == Variants(FromRows(<<<<1, 5>>, <<-3, 2>>>>))
Matrices3 == Variants(TestDet3) \cup Variants(FromRows(<<<<1, 0, 0>>, <<0, 1, 0>>, <<0, 0, 1>>>>))
Matrices4 ==
    Variants(TestDet4) \cup Variants(TestMulTuple) \cup Variants(TestIdentity)
    \cup Variants(identity_matrix) \cup {TestMatrixA, TestMatrixB}
    \cup {rotate_x(1), scaling(Int2F(5), Int2F(5), Int2F(5)),
          translation(Int2F(10), Int2F(5), Int2F(7))}

\* the transformations of tests::individual_transformations, a sheering, and
\* two matrices with no zero cell
ChainTransforms ==
    {rotate_x(1), scaling(Int2F(5), Int2F(5), Int2F(5)),
     translation(Int2F(10), Int2F(5), Int2F(7)),
     sheering(One, Zero, Zero, Int2F(2), Zero, Zero), TestDet4, TestMatrixB}

AlgebraTuples ==
    {Tuple_new(Int2F(1), Int2F(2), Int2F(3), Int2F(1))}
    \cup {Tuple_new(Int2F(x), Int2F(y), Int2F(3), Int2F(w)) :
            x \in (-MaxComp)..MaxComp, y \in (-MaxComp)..MaxComp, w \in 0..MaxComp}

ChainPoints == {new_point(One, Zero, One), new_point(Int2F(-1), Int2F(2), Int2F(3))}

\* impl Index<usize> for Matrix, then the index of the row array: self[i][y]
\* is a cell of the N x N storage when i < N and y < N, and panics otherwise
InStorage(m, i, y) == i \in DOMAIN m /\ y \in DOMAIN m[i]

\* the cells Matrix * Tuple reads: self[i][y] for i in 0..4, y in 0..4
MulTupleReads == (0..3) \X (0..3)

\* impl Mul<Tuple<T>> for Matrix<T, N>, for any N
Matrix_mul_Tuple(m, rhs) ==
    IF \A c \in MulTupleReads : InStorage(m, c[1], c[2])
    THEN Returned(MatrixMulTuple(m, rhs))
    ELSE Panic

AlgebraInit ==
    /\ matrix \in Matrices2 \cup Matrices3 \cup Matrices4
    /\ mres = NotCalled
    /\ mcalls = 0

\* determinant exists for Matrix<T, 3> and Matrix<T, 4>
Determinant ==
    /\ mres = NotCalled
    /\ Size(matrix) \in {N3, N4}
    /\ mres' = [op |-> "determinant", before |-> matrix, args |-> <<>>,
                ret |-> IF Size(matrix) = N3 THEN determinant3(matrix)
                        ELSE determinant(matrix)]
    /\ mcalls' = mcalls + 1
    /\ UNCHANGED <<matrix, hitVars, sphereVars, canvasVars, writerVars, tres, projVars>>

\* matrix * v
MulTuple ==
    /\ mres = NotCalled
    /\ \E v \in AlgebraTuples :
         mres' = [op |-> "mul_tuple", before |-> matrix, args |-> <<v>>,
                  ret |-> Matrix_mul_Tuple(matrix, v)]
    /\ mcalls' = mcalls + 1
    /\ UNCHANGED <<matrix, hitVars, sphereVars, canvasVars, writerVars, tres, projVars>>

\* matrix * Matrix::identity_matrix()
MulIdentity ==
    /\ mres = NotCalled
    /\ Size(matrix) = N4
    /\ mres' = [op |-> "mul_identity", before |-> matrix, args |-> <<>>,
                ret |-> MatrixMul(matrix, identity_matrix)]
    /\ mcalls' = mcalls + 1
    /\ UNCHANGED <<matrix, hitVars, sphereVars, canvasVars, writerVars, tres, projVars>>

\* c * b * matrix * p, which is ((c * b) * matrix) * p
Chain ==
    /\ mres = NotCalled
    /\ Size(matrix) = N4
    /\ \E b \in ChainTransforms, c \in ChainTransforms, p \in ChainPoints :
         mres' = [op |-> "chain", before |-> matrix, args |-> <<b, c, p>>,
                  ret |-> MatrixMulTuple(MatrixMul(MatrixMul(c, b), matrix), p)]
    /\ mcalls' = mcalls + 1
    /\ UNCHANGED <<matrix, hitVars, sphereVars, canvasVars, writerVars, tres, projVars>>

InitAlgebra ==
    AlgebraInit /\ HitIdle /\ SphereIdle /\ CanvasIdle /\ WriterIdle /\ TupleIdle /\ ProjIdle
NextAlgebra == Determinant \/ MulTuple \/ MulIdentity \/ Chain
SpecAlgebra == InitAlgebra /\ [][NextAlgebra]_vars

\* the reference determinant of a matrix of integers: the sum, over the
\* permutations f of the column indices, of the signature of f times the
\* product of the cells m[i][f[i]]
ColumnPermutations(n) ==
    {f \in [0..(n - 1) -> 0..(n - 1)] : \A i, j \in 0..(n - 1) : f[i] = f[j] => i = j}
Perms3 == ColumnPermutations(N3)
Perms4 == ColumnPermutations(N4)

Inversions(f) ==
    Cardinality({p \in (DOMAIN f) \X (DOMAIN f) : p[1] < p[2] /\ f[p[1]] > f[p[2]]})
Signature(f) == IF Inversions(f) % 2 = 0 THEN 1 ELSE -1

RECURSIVE ProductAlong(_, _, _)
ProductAlong(m, f, i) ==
    IF i = Size(m) THEN 1 ELSE m[i][f[i]][1] * ProductAlong(m, f, i + 1)

RECURSIVE SignedSum(_, _)
SignedSum(m, S) ==
    IF S = {} THEN 0
    ELSE LET f == CHOOSE g \in S : TRUE
         IN Signature(f) * ProductAlong(m, f, 0) + SignedSum(m, S \ {f})

ReferenceDeterminant(m) == SignedSum(m, IF Size(m) = N3 THEN Perms3 ELSE Perms4)

\* C21: for every 3x3 and 4x4 matrix, determinant() (cofactor expansion along
\* row 0, down to the 2x2 base case) equals the reference determinant, the
\* signed sum over permutations.
C21_DeterminantIsLeibniz ==
    (mres # NotCalled /\ mres.op = "determinant")
        => mres.ret = Int2F(ReferenceDeterminant(mres.before))

\* determinant() was called on the matrix of tests::determinant_4x4 and
\* returned -4071
C21_Witness ==
    /\ mres # NotCalled
    /\ mres.op = "determinant"
    /\ mres.before = TestDet4
    /\ mres.ret = Int2F(-4071)

\* the dot of row i of a matrix of integers with the four components of v
RowDot(m, v, i) ==
    m[i][0][1] * v.x[1] + m[i][1][1] * v.y[1] + m[i][2][1] * v.z[1] + m[i][3][1] * v.w[1]

\* C22: for a 4x4 matrix M and a Tuple v, every component i of M * v is the
\* sum over j of M[i][j] * v[j], over all four components of the v handed in,
\* w included; no component is computed from one already overwritten.
C22_RowsDotOriginalTuple ==
    (mres # NotCalled /\ mres.op = "mul_tuple" /\ Size(mres.before) = N4)
        => /\ ~mres.ret.panicked
           /\ \A i \in 0..3 :
                TupleIndex(mres.ret.val, i) = Int2F(RowDot(mres.before, mres.args[1], i))

\* the product of tests::multiply_matrices_tuple: rows 1 and 2 read x and y
\* after the steps for rows 0 and 1 have written them
C22_Witness ==
    /\ mres # NotCalled
    /\ mres.op = "mul_tuple"
    /\ mres.before = TestMulTuple
    /\ mres.args[1] = Tuple_new(Int2F(1), Int2F(2), Int2F(3), Int2F(1))
    /\ mres.ret = Returned(Tuple_new(Int2F(18), Int2F(24), Int2F(33), Int2F(1)))

\* the transformations of a recorded chain applied one after another
OneAfterAnother(a, b, c, p) == MatrixMulTuple(c, MatrixMulTuple(b, MatrixMulTuple(a, p)))

\* C23: (C * B * A) * p equals C * (B * (A * p)) for 4x4 matrices A, B, C and a
\* point p, and M * identity_matrix() equals M for every 4x4 matrix M.
C23_ChainIsOneAfterAnother ==
    /\ (mres # NotCalled /\ mres.op = "chain")
         => mres.ret = OneAfterAnother(mres.before, mres.args[1], mres.args[2], mres.args[3])
    /\ (mres # NotCalled /\ mres.op = "mul_identity") => mres.ret = mres.before

\* the chain of tests::chained_transformations: a quarter turn about x, then
\* the scaling by 5, then the translation by (10, 5, 7), takes point(1, 0, 1)
\* to point(15, 0, 7)
C23_Witness ==
    /\ mres # NotCalled
    /\ mres.op = "chain"
    /\ mres.before = rotate_x(1)
    /\ mres.args = <<scaling(Int2F(5), Int2F(5), Int2F(5)),
                     translation(Int2F(10), Int2F(5), Int2F(7)),
                     new_point(One, Zero, One)>>
    /\ mres.ret = new_point(Int2F(15), Zero, Int2F(7))

\* C28 as stated: a Matrix of size 2 or 3 cannot reach a run-time out-of-range
\* access or panic by being multiplied with a Tuple, and the multiplication
\* never reads a cell outside the N x N storage of the matrix.
C28_Original ==
    (mres # NotCalled /\ mres.op = "mul_tuple")
        => /\ ~mres.ret.panicked
           /\ \A c \in MulTupleReads : InStorage(mres.before, c[1], c[2])

-----------------------------------------------------------------------------
(* Sphere: the transform, the records of intersect, and normal_at *)

\* C24: a new Sphere has the identity transform; after any sequence of
\* set_translation, intersect and normal_at calls the transform is the argument
\* of the most recent set_translation (the identity if there was none) and the
\* id is the id given at construction.
C24_TransformIsLastSet ==
    /\ sphere.id = 1
    /\ sphere.transformation = (IF last_set = None THEN identity_matrix ELSE last_set.val)

\* set_translation replaced the identity, then intersect failed on the sphere
\* (its transform has no inverse) and normal_at was called
C24_Witness ==
    /\ last_set # None
    /\ last_set.val # identity_matrix
    /\ sphere.transformation = last_set.val
    /\ xs # NotCalled
    /\ xs.self = sphere
    /\ xs.ret = TransformNotInvertible
    /\ normal # NotCalled

\* C25: both records returned by intersect hold a copy of the sphere as it was
\* at the time of the call (same id, same transform); a later set_translation
\* on the sphere leaves the object of the records returned earlier as it was.
C25_RecordsHoldCopy ==
    (xs # NotCalled /\ xs.ret.is_ok)
        => /\ DOMAIN xs.ret.val = 0..1
           /\ \A i \in 0..1 : xs.ret.val[i].object = xs.self

\* intersect returned two records on the sphere scaled by 2, and a later
\* set_translation gave the sphere another transform
C25_Witness ==
    /\ xs # NotCalled
    /\ xs.ret.is_ok
    /\ xs.self.transformation = scaling(Int2F(2), Int2F(2), Int2F(2))
    /\ xs.ret.val[0].object.transformation = scaling(Int2F(2), Int2F(2), Int2F(2))
    /\ xs.ret.val[1].object.transformation = scaling(Int2F(2), Int2F(2), Int2F(2))
    /\ sphere.transformation # xs.self.transformation

\* normal_at on spheres that differ in their transform and in their id
MaxId == 3       \* the id of a sphere is in 1..MaxId

NormalSpheres == {set_translation(Sphere_new(id), m) : id \in 1..MaxId, m \in Transforms}

NormalInit ==
    /\ sphere \in NormalSpheres
    /\ xs = NotCalled
    /\ last_set = Some(sphere.transformation)
    /\ normal = NotCalled

InitNormal ==
    NormalInit /\ HitIdle /\ MatrixIdle /\ CanvasIdle /\ WriterIdle /\ TupleIdle /\ ProjIdle
NextNormal == NormalAt
SpecNormal == InitNormal /\ [][NextNormal]_vars

Centre == new_point(Zero, Zero, Zero)

\* the call returns what every sphere returns for the point
SameOnEverySphere == \A s \in NormalSpheres : normal_at(s, normal.point) = normal.ret

\* C26 as stated: normal_at(point) is (point - point(0,0,0)) normalized, two
\* spheres that differ only in transform or id return the same normal for the
\* same point, and the result has w = 0 when the argument is a point (w = 1).
C26_Original ==
    normal # NotCalled
        => /\ SameOnEverySphere
           /\ normal.point.w = One => normal.ret.w = Zero

\* C26: as stated, for every point other than point(0, 0, 0); for the centre
\* the magnitude is 0 and every component of the result is NaN.
C26_NormalFromPointOnly ==
    normal # NotCalled
        => /\ SameOnEverySphere
           /\ (normal.point.w = One /\ normal.point # Centre) => normal.ret.w = Zero
           /\ normal.point = Centre => normal.ret = Tuple_new(NaN, NaN, NaN, NaN)

\* normal_at(point(1, 2, 2)) on a sphere scaled by 2 returned
\* vector(1/3, 2/3, 2/3)
C26_Witness ==
    /\ normal # NotCalled
    /\ sphere.transformation = scaling(Int2F(2), Int2F(2), Int2F(2))
    /\ normal.point = new_point(Int2F(1), Int2F(2), Int2F(2))
    /\ normal.ret = new_vector(Frac(1, 3), Frac(2, 3), Frac(2, 3))

-----------------------------------------------------------------------------
(* Tuple::dot_product of tuple.rs and of main.rs *)

\* x and z in -MaxComp..MaxComp, y = 2, w in 0..MaxComp
DotTuples ==
    {Tuple_new(Int2F(x), Int2F(2), Int2F(z), Int2F(w)) :
        x \in (-MaxComp)..MaxComp, z \in (-MaxComp)..MaxComp, w \in 0..MaxComp}

\* t1.dot_product(&t2) of tuple.rs
DotProductCall ==
    /\ tres = NotCalled
    /\ \E t1, t2 \in DotTuples :
         tres' = [op |-> "dot_product", args |-> <<t1, t2>>, ret |-> dot_product(t1, t2)]
    /\ UNCHANGED <<hitVars, sphereVars, matrixVars, canvasVars, writerVars, projVars>>

\* Tuple::dot_product(&t1, &t2) of main.rs
MainDotProductCall ==
    /\ tres = NotCalled
    /\ \E t1, t2 \in DotTuples :
         tres' = [op |-> "main_dot_product", args |-> <<t1, t2>>,
                  ret |-> main_dot_product(t1, t2)]
    /\ UNCHANGED <<hitVars, sphereVars, matrixVars, canvasVars, writerVars, projVars>>

InitDot ==
    TupleIdle /\ HitIdle /\ SphereIdle /\ MatrixIdle /\ CanvasIdle /\ WriterIdle /\ ProjIdle
NextDot == DotProductCall \/ MainDotProductCall
SpecDot == InitDot /\ [][NextDot]_vars

\* the sum of the products of the corresponding components, in integers
ComponentProducts(a, b) == a.x[1] * b.x[1] + a.y[1] * b.y[1] + a.z[1] * b.z[1] + a.w[1] * b.w[1]

\* C27 as stated: the dot product is the sum of the products of corresponding
\* components over x, y, z and w, for the dot_product of tuple.rs and for the
\* dot_product of main.rs, and so is symmetric in its two arguments.
C27_Original ==
    (tres # NotCalled /\ tres.op \in {"dot_product", "main_dot_product"})
        => /\ tres.ret = Int2F(ComponentProducts(tres.args[1], tres.args[2]))
           /\ tres.op = "dot_product"
                => tres.ret = dot_product(tres.args[2], tres.args[1])
           /\ tres.op = "main_dot_product"
                => tres.ret = main_dot_product(tres.args[2], tres.args[1])

-----------------------------------------------------------------------------
(* Projectile::new, Environment::new and Projectile::tick *)

MaxTicks == 3    \* the tick calls made in one run
MaxSpeed == 1    \* heights, speeds, gravity and wind are integers up to MaxSpeed

ProjInit ==
    /\ \E y \in 0..MaxSpeed : \E vx, vy \in (-MaxSpeed)..MaxSpeed :
         projectile = Projectile_new(new_point(Zero, Int2F(y), Zero),
                                     new_vector(Int2F(vx), Int2F(vy), Zero))
    /\ \E g, w \in 0..MaxSpeed :
         environment = Environment_new(new_vector(Zero, Int2F(-g), Zero),
                                       new_vector(Int2F(-w), Zero, Zero))
    /\ launched = projectile
    /\ ticks = 0

\* projectile.tick(environment.clone())
Tick ==
    /\ ticks < MaxTicks
    /\ projectile' = tick(projectile, environment)
    /\ ticks' = ticks + 1
    /\ UNCHANGED <<environment, launched, hitVars, sphereVars, matrixVars, canvasVars,
                   writerVars, tres>>

InitProjectile ==
    ProjInit /\ HitIdle /\ SphereIdle /\ MatrixIdle /\ CanvasIdle /\ WriterIdle /\ TupleIdle
NextProjectile == Tick
SpecProjectile == InitProjectile /\ [][NextProjectile]_vars

\* component c of a tuple of integers
IntOf(t, c) == TupleIndex(t, c)[1]

\* component c of gravity + wind
Push(c) == IntOf(environment.gravity, c) + IntOf(environment.wind, c)

\* C29: tick moves the position by the velocity held before the tick and then
\* updates the velocity, so after n ticks under a constant environment the
\* velocity is v0 + n * (gravity + wind) and the position is
\* p0 + n * v0 + (n * (n - 1) / 2) * (gravity + wind).
C29_TicksClosedForm ==
    \A c \in 0..3 :
        /\ IntOf(projectile.velocity, c) = IntOf(launched.velocity, c) + ticks * Push(c)
        /\ IntOf(projectile.position, c) =
               IntOf(launched.position, c) + ticks * IntOf(launched.velocity, c)
               + ((ticks * (ticks - 1)) \div 2) * Push(c)
        /\ TupleIndex(projectile.velocity, c)[2] = 1
        /\ TupleIndex(projectile.position, c)[2] = 1

\* three ticks under gravity and wind: launched from (0, 1, 0) with velocity
\* (1, 1, 0), the projectile is at (0, 1, 0) with velocity (-2, -2, 0)
C29_Witness ==
    /\ ticks = 3
    /\ launched = Projectile_new(new_point(Zero, One, Zero), new_vector(One, One, Zero))
    /\ environment = Environment_new(new_vector(Zero, Int2F(-1), Zero),
                                     new_vector(Int2F(-1), Zero, Zero))
    /\ projectile = Projectile_new(new_point(Zero, One, Zero),
                                   new_vector(Int2F(-2), Int2F(-2), Zero))

-----------------------------------------------------------------------------
(* Canvas: the pixel grid and the width and height fields *)

\* the grid of cv has cv.height rows of cv.width pixels
GridMatchesFields(cv) ==
    /\ DOMAIN cv.pixels = 0..(cv.height - 1)
    /\ \A h \in DOMAIN cv.pixels : DOMAIN cv.pixels[h] = 0..(cv.width - 1)

\* C30: for a canvas created by new or new_with_color and changed only through
\* write_pixel, in every reachable state the grid has exactly height rows of
\* exactly width pixels and width and height keep their construction values;
\* so the bounds check of write_pixel, made against the grid, agrees with the
\* width and height fields.
C30_GridKeepsItsShape ==
    /\ GridMatchesFields(canvas)
    /\ canvas.width = created.width
    /\ canvas.height = created.height
    /\ \A i \in 1..Len(log) :
         log[i].ret.is_ok <=> (log[i].x < canvas.width /\ log[i].y < canvas.height)

\* two write_pixel calls were made, one stored a color and one was refused
\* for a coordinate equal to the width
C30_Witness ==
    /\ Len(log) = 2
    /\ canvas # created
    /\ \E i, j \in 1..2 :
         /\ log[i].ret.is_ok
         /\ ~log[j].ret.is_ok
         /\ log[j].x = canvas.width

=============================================================================
